---- MODULE Spec2Model ----
(***************************************************************************)
(* Model of oemof.solph.network: the solph EnergySystem, Flow and the      *)
(* linear transformer nodes (src/oemof/solph/network.py).                  *)
(*                                                                         *)
(* A behaviour is one client call: constructing a Flow, constructing an    *)
(* EnergySystem and adding nodes to it, or constructing a transformer.     *)
(* Init draws the keyword arguments of the call; the actions are the       *)
(* statements of the constructor in program order.                         *)
(***************************************************************************)
EXTENDS Naturals, Sequences, FiniteSets

VARIABLES
    pc,                 \* position of the client call
    kwargs,             \* Flow(**kwargs): supplied key -> value
    flow,               \* the Flow instance's attributes (self.__dict__)
    error,              \* the exception that ended the call, or NoError
    warnings,           \* warnings.warn calls made so far, in order
    es_kwargs,          \* EnergySystem(**kwargs): the user's groupings, if any
    groupings,          \* the grouping list the EnergySystem holds
    registry,           \* the EnergySystem's nodes, in registration order
    node_arg,           \* the argument of the last add(node)
    tr_kwargs,          \* transformer kwargs: conversion_factors, outputs
    conversion_factors  \* the transformer's conversion_factors attribute

vars == <<pc, kwargs, flow, error, warnings, es_kwargs, groupings, registry,
          node_arg, tr_kwargs, conversion_factors>>

flowVars == <<kwargs, flow, warnings>>
esVars == <<es_kwargs, groupings, registry, node_arg>>
trVars == <<tr_kwargs, conversion_factors>>

----------------------------------------------------------------------------
(* Bounds of the model.                                                    *)

MaxLen == 3         \* longest explicit list drawn as an argument
MaxIndex == 4       \* largest index read from a time series
MaxGroupings == 2   \* longest user-supplied grouping list
NumLabels == 3      \* number of distinct node labels

----------------------------------------------------------------------------
(* Python values.  Every value is a record of one shape:                   *)
(*   kind  "none" | "bool" | "num" | "obj" | "list" | "const"              *)
(*   of    for "const" (a broadcast scalar): the kind of the scalar        *)
(*   items the payload: <<>> for None, <<n>> for a scalar, the elements    *)
(*         of a list                                                       *)

None == [kind |-> "none", of |-> "-", items |-> <<>>]
Num(n) == [kind |-> "num", of |-> "-", items |-> <<n>>]
Bool(b) == [kind |-> "bool", of |-> "-", items |-> <<IF b THEN 1 ELSE 0>>]
Obj(n) == [kind |-> "obj", of |-> "-", items |-> <<n>>]
List(s) == [kind |-> "list", of |-> "-", items |-> s]
IndexError == [kind |-> "IndexError", of |-> "-", items |-> <<>>]

\* `x is None`
IsNone(v) == v.kind = "none"

\* bool(x), as `if x` and `x and y` evaluate it
Truthy(v) ==
    CASE v.kind = "none" -> FALSE
      [] v.kind \in {"bool", "num"} -> v.items[1] # 0
      [] v.kind = "list" -> Len(v.items) > 0
      [] OTHER -> TRUE

\* plumbing.sequence: an iterable is returned as it is, anything else
\* (None included) becomes an object that returns it at every index.
sequence(v) ==
    IF v.kind = "list" THEN v
    ELSE [kind |-> "const", of |-> v.kind, items |-> v.items]

\* ts[i], 0-indexed
getitem(ts, i) ==
    IF ts.kind = "const" THEN [kind |-> ts.of, of |-> "-", items |-> ts.items]
    ELSE IF i < Len(ts.items) THEN Num(ts.items[i + 1])
    ELSE IndexError

----------------------------------------------------------------------------
(* Flow.__init__                                                           *)

scalars == {"nominal_value", "fixed_costs", "summed_max", "summed_min",
            "investment", "binary", "discrete", "fixed"}
sequences == {"actual_value", "positive_gradient", "negative_gradient",
              "variable_costs", "min", "max"}

\* defaults.get(attribute)
defaults(attribute) ==
    CASE attribute = "fixed" -> Bool(FALSE)
      [] attribute = "min" -> Num(0)
      [] attribute = "max" -> Num(1)
      [] OTHER -> None

\* kwargs.get(attribute, defaults.get(attribute))
kwargs_get(kw, attribute) ==
    IF attribute \in DOMAIN kw THEN kw[attribute] ELSE defaults(attribute)

NoError == "none"
FixedError == "ValueError: Can not fix flow value to None. Please set actual_value of the flow"
ExclusionError == "ValueError: Investment flows cannot be combined with binary flows!"
NominalWarning == "SyntaxWarning: Using the investment object the nominal_value is set to None."

\* The arguments drawn for a Flow.
Absent == [kind |-> "absent", of |-> "-", items |-> <<>>]
Lists == {List(s) : s \in UNION {[1..n -> {4, 10}] : n \in 1..MaxLen}}
FlowArgs ==
    [nominal_value : {Absent, None, Num(0), Num(100)},
     fixed : {Absent, Bool(TRUE), Bool(FALSE)},
     investment : {Absent, None, Obj(1)},
     binary : {Absent, None, Obj(2)},
     actual_value : {Absent, None, Num(7)} \cup Lists,
     min : {Absent, Num(2), List(<<2, 3>>)},
     max : {Absent, Num(9)},
     variable_costs : {Absent, Num(5)},
     emission : {Absent, Num(3)}]
Supplied(r) == [k \in {a \in DOMAIN r : r[a] # Absent} |-> r[k]]
NoAttributes == [k \in {} |-> None]

FlowIdle ==
    /\ kwargs = NoAttributes
    /\ flow = NoAttributes
    /\ warnings = <<>>

FlowInit ==
    /\ pc = "Flow.resolve"
    /\ \E r \in FlowArgs : kwargs = Supplied(r)
    /\ flow = NoAttributes
    /\ warnings = <<>>

\* Resolve with the test `attribute not in scalars` for the wrapping, which
\* wraps unrecognized options too.
Resolve_WrapsUnrecognized ==
    /\ pc = "Flow.resolve"
    /\ flow' = [attribute \in scalars \cup sequences \cup DOMAIN kwargs |->
                  IF attribute \notin scalars
                  THEN sequence(kwargs_get(kwargs, attribute))
                  ELSE kwargs_get(kwargs, attribute)]
    /\ pc' = "Flow.fixed_rule"
    /\ UNCHANGED <<kwargs, error, warnings>>

\* lines 144-147: every recognized and every supplied attribute is set
Resolve ==
    /\ pc = "Flow.resolve"
    /\ flow' = [attribute \in scalars \cup sequences \cup DOMAIN kwargs |->
                  IF attribute \in sequences
                  THEN sequence(kwargs_get(kwargs, attribute))
                  ELSE kwargs_get(kwargs, attribute)]
    /\ pc' = "Flow.fixed_rule"
    /\ UNCHANGED <<kwargs, error, warnings>>

\* FixedRule without the assignment to self.max.
FixedRule_MaxKept ==
    /\ pc = "Flow.fixed_rule"
    /\ IF Truthy(flow["fixed"]) /\ IsNone(flow["actual_value"])
       THEN /\ error' = FixedError
            /\ pc' = "Flow.raised"
            /\ UNCHANGED flow
       ELSE /\ flow' = IF Truthy(flow["fixed"])
                       THEN [flow EXCEPT !["min"] = sequence(Num(0))]
                       ELSE flow
            /\ pc' = "Flow.investment_rule"
            /\ UNCHANGED error
    /\ UNCHANGED <<kwargs, warnings>>

\* FixedRule with the overwrite of min and max outside the elif.
FixedRule_AlwaysOverwrites ==
    /\ pc = "Flow.fixed_rule"
    /\ IF Truthy(flow["fixed"]) /\ IsNone(flow["actual_value"])
       THEN /\ error' = FixedError
            /\ pc' = "Flow.raised"
            /\ UNCHANGED flow
       ELSE /\ flow' = [flow EXCEPT !["min"] = sequence(Num(0)),
                                    !["max"] = sequence(Num(1))]
            /\ pc' = "Flow.investment_rule"
            /\ UNCHANGED error
    /\ UNCHANGED <<kwargs, warnings>>

\* lines 149-159
FixedRule ==
    /\ pc = "Flow.fixed_rule"
    /\ IF Truthy(flow["fixed"]) /\ IsNone(flow["actual_value"])
       THEN /\ error' = FixedError
            /\ pc' = "Flow.raised"
            /\ UNCHANGED flow
       ELSE /\ flow' = IF Truthy(flow["fixed"])
                       THEN [flow EXCEPT !["min"] = sequence(Num(0)),
                                         !["max"] = sequence(Num(1))]
                       ELSE flow
            /\ pc' = "Flow.investment_rule"
            /\ UNCHANGED error
    /\ UNCHANGED <<kwargs, warnings>>

\* InvestmentRule that warns and leaves nominal_value as it is.
InvestmentRule_WarnsOnly ==
    /\ pc = "Flow.investment_rule"
    /\ IF Truthy(flow["investment"]) /\ ~IsNone(flow["nominal_value"])
       THEN /\ warnings' = Append(warnings, NominalWarning)
            /\ UNCHANGED flow
       ELSE UNCHANGED <<flow, warnings>>
    /\ pc' = "Flow.exclusion_rule"
    /\ UNCHANGED <<kwargs, error>>

\* lines 160-165
InvestmentRule ==
    /\ pc = "Flow.investment_rule"
    /\ IF Truthy(flow["investment"]) /\ ~IsNone(flow["nominal_value"])
       THEN /\ flow' = [flow EXCEPT !["nominal_value"] = None]
            /\ warnings' = Append(warnings, NominalWarning)
       ELSE UNCHANGED <<flow, warnings>>
    /\ pc' = "Flow.exclusion_rule"
    /\ UNCHANGED <<kwargs, error>>

\* ExclusionRule as an elif of the investment rule: skipped whenever the
\* investment rule cleared nominal_value.
ExclusionRule_Elif ==
    /\ pc = "Flow.exclusion_rule"
    /\ IF warnings = <<>> /\ Truthy(flow["investment"]) /\ Truthy(flow["binary"])
       THEN /\ error' = ExclusionError
            /\ pc' = "Flow.raised"
       ELSE /\ pc' = "Flow.done"
            /\ UNCHANGED error
    /\ UNCHANGED <<kwargs, flow, warnings>>

\* lines 166-168
ExclusionRule ==
    /\ pc = "Flow.exclusion_rule"
    /\ IF Truthy(flow["investment"]) /\ Truthy(flow["binary"])
       THEN /\ error' = ExclusionError
            /\ pc' = "Flow.raised"
       ELSE /\ pc' = "Flow.done"
            /\ UNCHANGED error
    /\ UNCHANGED <<kwargs, flow, warnings>>

----------------------------------------------------------------------------
(* EnergySystem                                                            *)

\* solph.GROUPINGS, the built-in structural groupings
GROUPINGS == <<"constraint_grouping", "investment_flow_grouping",
               "binary_flow_grouping">>
\* solph.custom.custom_grouping
custom_grouping == "custom_grouping"

DuplicateLabelError == "DuplicateLabelError"

UserGroupings == {"g1", "g2"}
GroupingLists == UNION {[1..n -> UserGroupings] : n \in 0..MaxGroupings}
Labels == 1..NumLabels
Nodes == [label : Labels, variant : {"Bus", "Sink"}]

ESIdle ==
    /\ es_kwargs = NoAttributes
    /\ groupings = <<>>
    /\ registry = <<>>
    /\ node_arg = None

ESInit ==
    /\ pc = "EnergySystem.init"
    /\ \/ es_kwargs = NoAttributes
       \/ \E g \in GroupingLists : es_kwargs = [k \in {"groupings"} |-> g]
    /\ groupings = <<>>
    /\ registry = <<>>
    /\ node_arg = None

\* kwargs.get('groupings', [])
groupings_get(kw) == IF "groupings" \in DOMAIN kw THEN kw["groupings"] ELSE <<>>

\* es.EnergySystem.__init__: keeps the grouping list it is handed
BaseEnergySystem_init(kw) == kw["groupings"]

\* EnergySystem_init with the user's groupings ahead of the built-in ones.
EnergySystem_init_Appends ==
    /\ pc = "EnergySystem.init"
    /\ LET kw == [k \in DOMAIN es_kwargs \cup {"groupings"} |->
                    IF k = "groupings"
                    THEN groupings_get(es_kwargs) \o GROUPINGS \o <<custom_grouping>>
                    ELSE es_kwargs[k]]
       IN groupings' = BaseEnergySystem_init(kw)
    /\ pc' = "EnergySystem.ready"
    /\ UNCHANGED <<es_kwargs, registry, node_arg, error>>

\* lines 31-40
EnergySystem_init ==
    /\ pc = "EnergySystem.init"
    /\ LET kw == [k \in DOMAIN es_kwargs \cup {"groupings"} |->
                    IF k = "groupings"
                    THEN GROUPINGS \o <<custom_grouping>> \o groupings_get(es_kwargs)
                    ELSE es_kwargs[k]]
       IN groupings' = BaseEnergySystem_init(kw)
    /\ pc' = "EnergySystem.ready"
    /\ UNCHANGED <<es_kwargs, registry, node_arg, error>>

\* add that compares whole nodes instead of labels.
add_ComparesNodes(node) ==
    /\ pc = "EnergySystem.ready"
    /\ node_arg' = node
    /\ IF \E i \in 1..Len(registry) : registry[i] = node
       THEN /\ error' = DuplicateLabelError
            /\ UNCHANGED registry
       ELSE /\ error' = NoError
            /\ registry' = Append(registry, node)
    /\ UNCHANGED <<pc, es_kwargs, groupings>>

\* es.EnergySystem.add: registers a node by label
add(node) ==
    /\ pc = "EnergySystem.ready"
    /\ node_arg' = node
    /\ IF \E i \in 1..Len(registry) : registry[i].label = node.label
       THEN /\ error' = DuplicateLabelError
            /\ UNCHANGED registry
       ELSE /\ error' = NoError
            /\ registry' = Append(registry, node)
    /\ UNCHANGED <<pc, es_kwargs, groupings>>

----------------------------------------------------------------------------
(* LinearTransformer, LinearN1Transformer                                  *)

Buses == {"bel", "bth"}
Factors == {Num(4)} \cup Lists
FactorMaps == UNION {[B -> Factors] : B \in SUBSET Buses}
TransformerArgs ==
    {[k \in {"outputs"} |-> o] : o \in SUBSET Buses}
    \cup [conversion_factors : FactorMaps, outputs : SUBSET Buses]

TrIdle ==
    /\ tr_kwargs = NoAttributes
    /\ conversion_factors = NoAttributes

TrInit ==
    /\ pc \in {"LinearTransformer.init", "LinearN1Transformer.init"}
    /\ tr_kwargs \in TransformerArgs
    /\ conversion_factors = NoAttributes

\* kwargs.get('conversion_factors', {})
conversion_factors_get(kw) ==
    IF "conversion_factors" \in DOMAIN kw THEN kw["conversion_factors"]
    ELSE NoAttributes

\* lines 227-231
LinearTransformer_init ==
    /\ pc = "LinearTransformer.init"
    /\ conversion_factors' =
         [k \in DOMAIN conversion_factors_get(tr_kwargs) |->
            sequence(conversion_factors_get(tr_kwargs)[k])]
    /\ pc' = "LinearTransformer.done"
    /\ UNCHANGED <<tr_kwargs, error>>

\* LinearN1Transformer_init storing the supplied mapping as it is.
LinearN1Transformer_init_Unwrapped ==
    /\ pc = "LinearN1Transformer.init"
    /\ conversion_factors' = conversion_factors_get(tr_kwargs)
    /\ pc' = "LinearN1Transformer.done"
    /\ UNCHANGED <<tr_kwargs, error>>

\* lines 262-266
LinearN1Transformer_init ==
    /\ pc = "LinearN1Transformer.init"
    /\ conversion_factors' =
         [k \in DOMAIN conversion_factors_get(tr_kwargs) |->
            sequence(conversion_factors_get(tr_kwargs)[k])]
    /\ pc' = "LinearN1Transformer.done"
    /\ UNCHANGED <<tr_kwargs, error>>

----------------------------------------------------------------------------
Init ==
    /\ error = NoError
    /\ \/ FlowInit /\ ESIdle /\ TrIdle
       \/ ESInit /\ FlowIdle /\ TrIdle
       \/ TrInit /\ FlowIdle /\ ESIdle

Next ==
    \/ Resolve /\ UNCHANGED <<esVars, trVars>>
    \/ FixedRule /\ UNCHANGED <<esVars, trVars>>
    \/ InvestmentRule /\ UNCHANGED <<esVars, trVars>>
    \/ ExclusionRule /\ UNCHANGED <<esVars, trVars>>
    \/ EnergySystem_init /\ UNCHANGED <<flowVars, trVars>>
    \/ (\E node \in Nodes : add(node)) /\ UNCHANGED <<flowVars, trVars>>
    \/ LinearTransformer_init /\ UNCHANGED <<flowVars, esVars>>
    \/ LinearN1Transformer_init /\ UNCHANGED <<flowVars, esVars>>

Spec == Init /\ [][Next]_vars

----------------------------------------------------------------------------
(* Vocabulary of the properties, stated on the arguments of the call.      *)

FlowEnded == pc \in {"Flow.done", "Flow.raised"}
IsSupplied(a) == a \in DOMAIN kwargs
\* a descriptor (Investment, BinaryFlow) was passed
DescriptorSupplied(a) == IsSupplied(a) /\ kwargs[a].kind = "obj"
FixedSupplied == IsSupplied("fixed") /\ kwargs["fixed"] = Bool(TRUE)
ActualValueUndefined ==
    ~IsSupplied("actual_value") \/ kwargs["actual_value"] = None
NominalValueSupplied ==
    IsSupplied("nominal_value") /\ kwargs["nominal_value"] # None
Indices == 0..MaxIndex

\* what reading index i of a time series made from the raw value v gives
Reads(v, i) ==
    IF v.kind = "list"
    THEN IF i < Len(v.items) THEN Num(v.items[i + 1]) ELSE IndexError
    ELSE v
\* ts is a time series that reads as the raw value v
WrapsAs(ts, v) ==
    /\ ts.kind \in {"const", "list"}
    /\ \A i \in Indices : getitem(ts, i) = Reads(v, i)

\* C1: a Flow with fixed = true and no actual_value (absent or none) is
\* never constructed: the call fails with an error, whatever the other
\* options are.
C1_FixedWithoutValueFails ==
    /\ (FlowEnded /\ FixedSupplied /\ ActualValueUndefined)
         => (pc = "Flow.raised" /\ error \in {FixedError, ExclusionError})
    /\ (pc = "Flow.done" /\ Truthy(flow["fixed"]))
         => \E i \in Indices : getitem(flow["actual_value"], i) # None

\* C2: in every constructed Flow with fixed = true, min reads 0 and max
\* reads 1 at every index whatever min and max were supplied, while
\* actual_value and variable_costs read as the supplied values.
C2_FixedForcesBounds ==
    (pc = "Flow.done" /\ Truthy(flow["fixed"])) =>
        /\ \A i \in Indices : /\ getitem(flow["min"], i) = Num(0)
                              /\ getitem(flow["max"], i) = Num(1)
        /\ \A a \in {"actual_value", "variable_costs"} :
             IsSupplied(a) => WrapsAs(flow[a], kwargs[a])

C2_Witness ==
    /\ pc = "Flow.done"
    /\ FixedSupplied
    /\ IsSupplied("min") /\ kwargs["min"] = List(<<2, 3>>)
    /\ IsSupplied("max") /\ kwargs["max"] = Num(9)
    /\ IsSupplied("actual_value") /\ kwargs["actual_value"] = List(<<10, 4, 4>>)
    /\ IsSupplied("variable_costs") /\ kwargs["variable_costs"] = Num(5)
    /\ getitem(flow["actual_value"], 2) = Num(4)
    /\ getitem(flow["variable_costs"], 2) = Num(5)
    /\ getitem(flow["max"], 1) = Num(1)

\* C3: a Flow call with both an investment and a binary descriptor fails
\* with a ValueError whatever the other options are, and no constructed
\* Flow carries both descriptors.
C3_InvestmentBinaryExclusive ==
    /\ (FlowEnded /\ DescriptorSupplied("investment") /\ DescriptorSupplied("binary"))
         => (pc = "Flow.raised" /\ error \in {FixedError, ExclusionError})
    /\ pc = "Flow.done"
         => ~(flow["investment"].kind = "obj" /\ flow["binary"].kind = "obj")

C3_Witness ==
    /\ pc = "Flow.raised"
    /\ error = ExclusionError
    /\ DescriptorSupplied("investment") /\ DescriptorSupplied("binary")
    /\ FixedSupplied
    /\ NominalValueSupplied

\* C4: a Flow call with an investment descriptor, a nominal_value that is
\* not none and no binary descriptor succeeds with nominal_value = none
\* and exactly one advisory; every constructed Flow with an investment
\* descriptor has nominal_value = none.
C4_InvestmentClearsNominalValue ==
    /\ (FlowEnded /\ DescriptorSupplied("investment") /\ NominalValueSupplied
          /\ ~DescriptorSupplied("binary"))
         => /\ pc = "Flow.done"
            /\ error = NoError
            /\ flow["nominal_value"] = None
            /\ warnings = <<NominalWarning>>
    /\ (pc = "Flow.done" /\ flow["investment"].kind = "obj")
         => flow["nominal_value"] = None

C4_Witness ==
    /\ pc = "Flow.done"
    /\ DescriptorSupplied("investment")
    /\ kwargs_get(kwargs, "nominal_value") = Num(100)
    /\ flow["nominal_value"] = None
    /\ Len(warnings) = 1

\* C5: the grouping list of an EnergySystem is the built-in groupings,
\* then the custom grouping, then the user's groupings in the user's
\* order; every built-in precedes every user grouping, and with no
\* groupings supplied the list is the built-ins plus the custom grouping.
C5_BuiltinsPrepended ==
    pc = "EnergySystem.ready" =>
        LET user == IF "groupings" \in DOMAIN es_kwargs
                    THEN es_kwargs["groupings"] ELSE <<>>
            n == Len(GROUPINGS)
        IN /\ Len(groupings) = n + 1 + Len(user)
           /\ \A i \in 1..n : groupings[i] = GROUPINGS[i]
           /\ groupings[n + 1] = custom_grouping
           /\ \A j \in 1..Len(user) : groupings[n + 1 + j] = user[j]
           /\ \A i, j \in 1..Len(groupings) :
                (/\ \E b \in 1..n : GROUPINGS[b] = groupings[i]
                 /\ groupings[j] \in UserGroupings) => i < j

C5_Witness ==
    /\ pc = "EnergySystem.ready"
    /\ "groupings" \in DOMAIN es_kwargs
    /\ es_kwargs["groupings"] = <<"g2", "g1">>
    /\ groupings[Len(groupings)] = "g1"

\* C6: after any sequence of add(node), the labels of the registry are
\* pairwise distinct; an add of a registered label fails with
\* DuplicateLabelError and leaves the registry unchanged, and a successful
\* add appends the node after the nodes registered before.
C6_LabelsUnique ==
    [][(pc = "EnergySystem.ready" /\ pc' = "EnergySystem.ready") =>
         /\ \A i, j \in 1..Len(registry') :
              registry'[i].label = registry'[j].label => i = j
         /\ IF \E i \in 1..Len(registry) : registry[i].label = node_arg'.label
            THEN error' = DuplicateLabelError /\ registry' = registry
            ELSE error' = NoError /\ registry' = registry \o <<node_arg'>>]_vars

C6_Witness ==
    /\ pc = "EnergySystem.ready"
    /\ Len(registry) = 2
    /\ error = DuplicateLabelError
    /\ node_arg.label = registry[1].label
    /\ node_arg # registry[1]

\* C7: conversion_factors of a LinearTransformer or LinearN1Transformer has
\* exactly the supplied keys (none when nothing is supplied); a scalar
\* factor reads as itself at every index, a list factor L reads L[i] for
\* i < len(L); keys are not checked against the node's output buses.
C7_ConversionFactorsWrapped ==
    pc \in {"LinearTransformer.done", "LinearN1Transformer.done"} =>
        LET given == IF "conversion_factors" \in DOMAIN tr_kwargs
                     THEN tr_kwargs["conversion_factors"] ELSE NoAttributes
        IN /\ error = NoError
           /\ DOMAIN conversion_factors = DOMAIN given
           /\ \A k \in DOMAIN given : WrapsAs(conversion_factors[k], given[k])

C7_Witness ==
    /\ pc = "LinearN1Transformer.done"
    /\ tr_kwargs["outputs"] = {"bth"}
    /\ DOMAIN conversion_factors = {"bel", "bth"}
    /\ getitem(conversion_factors["bel"], 3) = Num(4)
    /\ getitem(conversion_factors["bth"], 2) = Num(10)
    /\ getitem(conversion_factors["bth"], 3) = IndexError

\* C8: after attribute resolution every recognized attribute and every
\* supplied option is set: the supplied value, else the default (fixed
\* false, min 0, max 1, any other none); the six sequence-typed keys are
\* stored as time series, every other key verbatim.
C8_AttributeResolution ==
    pc = "Flow.fixed_rule" =>
        LET recognized == {"nominal_value", "fixed_costs", "summed_max",
                           "summed_min", "investment", "binary", "discrete",
                           "fixed", "actual_value", "positive_gradient",
                           "negative_gradient", "variable_costs", "min", "max"}
            wrapped == {"actual_value", "positive_gradient",
                        "negative_gradient", "variable_costs", "min", "max"}
            value(a) == IF IsSupplied(a) THEN kwargs[a]
                        ELSE IF a = "fixed" THEN Bool(FALSE)
                        ELSE IF a = "min" THEN Num(0)
                        ELSE IF a = "max" THEN Num(1)
                        ELSE None
        IN /\ DOMAIN flow = recognized \cup DOMAIN kwargs
           /\ \A a \in DOMAIN flow :
                IF a \in wrapped THEN WrapsAs(flow[a], value(a))
                ELSE flow[a] = value(a)

C8_Witness ==
    /\ pc = "Flow.fixed_rule"
    /\ IsSupplied("emission") /\ flow["emission"] = Num(3)
    /\ IsSupplied("min") /\ kwargs["min"] = List(<<2, 3>>)
    /\ ~IsSupplied("max") /\ getitem(flow["max"], 1) = Num(1)
    /\ ~IsSupplied("fixed") /\ flow["fixed"] = Bool(FALSE)
    /\ ~IsSupplied("actual_value") /\ getitem(flow["actual_value"], 0) = None

\* C9: validation runs in the order fixed check, fixed overwrite,
\* investment clearing with advisory, exclusion check: an input breaking
\* both fatal rules fails with the fixed-without-value error and no
\* advisory; with investment, binary and a nominal_value and the fixed
\* rule satisfied, the advisory precedes the exclusion failure.
C9_ValidationOrder ==
    /\ (FlowEnded /\ FixedSupplied /\ ActualValueUndefined
          /\ DescriptorSupplied("investment") /\ DescriptorSupplied("binary"))
         => (pc = "Flow.raised" /\ error = FixedError /\ warnings = <<>>)
    /\ (DescriptorSupplied("investment") /\ DescriptorSupplied("binary")
          /\ NominalValueSupplied /\ ~(FixedSupplied /\ ActualValueUndefined))
         => /\ pc = "Flow.exclusion_rule"
                 => (error = NoError /\ warnings = <<NominalWarning>>)
            /\ FlowEnded
                 => (error = ExclusionError /\ warnings = <<NominalWarning>>)

\* C10: the validation rules change nothing but min, max and
\* nominal_value: min and max are kept when fixed is false, nominal_value
\* is kept and no advisory is emitted when there is no investment
\* descriptor or nominal_value is none, and every other attribute keeps
\* its resolved value.
C10_ValidationFrame ==
    [][(pc \in {"Flow.fixed_rule", "Flow.investment_rule", "Flow.exclusion_rule"}) =>
         /\ DOMAIN flow' = DOMAIN flow
         /\ \A a \in DOMAIN flow \ {"min", "max", "nominal_value"} :
              flow'[a] = flow[a]
         /\ ~Truthy(flow["fixed"]) =>
              (flow'["min"] = flow["min"] /\ flow'["max"] = flow["max"])
         /\ (flow["investment"].kind # "obj" \/ flow["nominal_value"] = None) =>
              (flow'["nominal_value"] = flow["nominal_value"]
               /\ warnings' = warnings)]_vars

C10_Witness ==
    /\ pc = "Flow.done"
    /\ IsSupplied("fixed") /\ kwargs["fixed"] = Bool(FALSE)
    /\ IsSupplied("min") /\ flow["min"] = List(<<2, 3>>)
    /\ IsSupplied("max") /\ getitem(flow["max"], 0) = Num(9)
    /\ ~DescriptorSupplied("investment")
    /\ flow["nominal_value"] = Num(100)
    /\ IsSupplied("emission") /\ flow["emission"] = Num(3)
    /\ warnings = <<>>

====
